---- MODULE Spec2Model ----
(***************************************************************************)
(* Session and access-control core of the developer portal: sessionStore   *)
(* (in-memory cache over the sessions collection), RoleManager (role cache *)
(* refreshed every five minutes), SessionSecurity and sessionMiddleware,   *)
(* the route guards withRoles and withAuth, and the cleanupSessions job,   *)
(* as written in the Authentication & Security document and the routes     *)
(* document.  Asynchronous functions are split at their awaits:            *)
(* the code between two awaits runs to completion on the event loop and is *)
(* one action; a database call is issued in one action, takes effect in    *)
(* the database in another, and resumes its caller in a third where the    *)
(* order matters.                                                          *)
(***************************************************************************)
EXTENDS Integers, FiniteSets, Sequences, Bags, TLC

\* ---------------------------------------------------------------- bounds
MaxSessions == 1      \* session ids generateUUID can hand out
MaxCalls == 2         \* sessionStore calls that can be in flight together
MaxRoleCalls == 2     \* RoleManager calls that can be in flight together
MaxTicks == 1         \* clock advances in one behaviour

\* ------------------------------------------------------ program constants
SessionTtl == 24 * 60 * 60 * 1000
RefreshInterval == 5 * 60 * 1000
\* Date.now() at start-up, in ms after lastUpdated's epoch (new Date(0)).
StartTime == RefreshInterval + 1

\* ----------------------------------------------------------- input sets
SessionIds == 1..MaxSessions
\* A sessionId that generateUUID never produced (a forged or garbled cookie).
UnknownId == MaxSessions + 1
RoleIds == {"admin", "viewer"}
PermSets == {{"read"}, {"read", "write"}}
Role(id, permissions) == [id |-> id, permissions |-> permissions]
\* The contents db.collection('roles') can have: as first set up, and with
\* the viewer role widened and the admin role removed.
RolesAtStart == {Role("admin", {"read", "write"}), Role("viewer", {"read"})}
RoleTables ==
    {RolesAtStart,
     {Role("viewer", {"read", "write"})}}
\* The verified users the authenticator hands to session creation.
Users == {[id |-> "u1", role |-> "viewer", permissions |-> {"read"}]}
\* The request being served when a session is created.
Requests == {[ip |-> "1.1.1.1", userAgent |-> "ua1"]}

VARIABLES
    now,          \* the clock read by new Date() / Date.now()
    ticks,        \* number of clock advances so far
    cache,        \* sessionStore.cache: session id -> UserSession
    collection,   \* sessionStore.collection: session id -> stored document
    nextId,       \* next identifier generateUUID returns
    issued,       \* ids that create has returned to its caller
    calls,        \* sessionStore calls in flight (a bag): position and locals
    outcome,      \* the call the last step completed, with its result (or none)
    destroyed,    \* ids for which some destroy has completed
    roles,        \* RoleManager.cache.roles: role id -> Role
    lastUpdated,  \* RoleManager.cache.lastUpdated
    rolesDb,      \* the documents of db.collection('roles')
    loaded,       \* the results find().toArray() has returned so far
    roleCalls,    \* RoleManager calls in flight (a bag): position and locals
    roleOutcome,  \* the RoleManager call the last step completed (or none)
    requests,     \* sessionMiddleware invocations in flight (a bag)
    served,       \* the request sessionMiddleware answered last (or none)
    nextReq,      \* number the next incoming request gets
    touches,      \* updateLastActive's writes: request number -> state
    routeCalls,   \* withRoles invocations in flight (a bag)
    routed,       \* the request withRoles answered last (or none)
    audit,        \* the entries auditLogger.log has written, in order
    sweep,        \* the cleanupSessions run: position, batch, index
    monitor       \* the detectAnomalies run: position, locals, alerts raised

vars == <<now, ticks, cache, collection, nextId, issued, calls, outcome, destroyed,
          roles, lastUpdated, rolesDb, loaded, roleCalls, roleOutcome,
          requests, served, nextReq, touches, routeCalls, routed, audit, sweep, monitor>>
pipelineVars == <<requests, served, nextReq, touches, routeCalls, routed, audit, sweep, monitor>>
sessionVars == <<cache, collection, nextId, issued, calls, outcome, destroyed>>
roleVars == <<roles, lastUpdated, rolesDb, loaded, roleCalls, roleOutcome>>

\* ------------------------------------------------------------ UserSession
\* A create whose session expires the moment it is created.
UserSessionInstant(id, userId, role, permissions, ip, userAgent, t) ==
    [id |-> id,
     userId |-> userId,
     token |-> <<"token", id>>,
     role |-> role,
     permissions |-> permissions,
     createdAt |-> t,
     expiresAt |-> t,
     metadata |-> [ip |-> ip, userAgent |-> userAgent, lastActive |-> t]]

\* Lines 38-51: the session create builds at time t.
UserSession(id, userId, role, permissions, ip, userAgent, t) ==
    [id |-> id,
     userId |-> userId,
     token |-> <<"token", id>>,
     role |-> role,
     permissions |-> permissions,
     createdAt |-> t,
     expiresAt |-> t + SessionTtl,
     metadata |-> [ip |-> ip, userAgent |-> userAgent, lastActive |-> t]]

\* session.expiresAt < new Date()
Expired(session, t) == session.expiresAt < t

\* Map.get: the value as a set of at most one element (empty = undefined)
MapGet(map, key) == IF key \in DOMAIN map THEN {map[key]} ELSE {}

\* Map.set
MapSet(map, key, value) ==
    [k \in (DOMAIN map) \cup {key} |-> IF k = key THEN value ELSE map[k]]

\* Map.delete / deleteOne: removing an absent key leaves the map as it is
MapDelete(map, key) == [k \in (DOMAIN map) \ {key} |-> map[k]]

\* ------------------------------------------------------- call bookkeeping
\* A validate that raises an error for a session it does not have.
ReturnedOrThrows(sessionSet) ==
    IF sessionSet = {} THEN [kind |-> "error", session |-> {}]
    ELSE [kind |-> "session", session |-> sessionSet]
Returned(sessionSet) ==
    IF sessionSet = {} THEN [kind |-> "null", session |-> {}]
    ELSE [kind |-> "session", session |-> sessionSet]
Thrown == [kind |-> "error", session |-> {}]
Resolved == [kind |-> "ok", session |-> {}]

\* The map holds a record for the id and validate's expiry test accepts it.
Live(map, id, t) == \E s \in MapGet(map, id) : ~Expired(s, t)

\* A call in flight: the function, the await it is suspended at, its
\* sessionId argument and its local `session`; and, of the moment it was
\* called: the time, whether a destroy of its sessionId had already
\* completed, and whether the cache held a usable copy of a session of which
\* the collection held no usable record.
StartCall(op, pc, sid, sessionSet) ==
    [op |-> op, pc |-> pc, sid |-> sid, session |-> sessionSet,
     calledAt |-> now, late |-> sid \in destroyed,
     stale |-> Live(cache, sid, now) /\ ~Live(collection, sid, now)]

\* A call that can no longer return a session keeps only what its
\* completion reports: the function, the sessionId and whether it was late.
Settled(call, pc) ==
    [call EXCEPT !.pc = pc, !.session = {}, !.calledAt = 0, !.stale = FALSE]

Suspend(call) == calls (+) SetToBag({call})
Replace(call, next) == (calls (-) SetToBag({call})) (+) SetToBag({next})
Remove(call) == calls (-) SetToBag({call})
Suspended(op, pc) == {c \in BagToSet(calls) : c.op = op /\ c.pc = pc}

\* The record of a completed call: what it returned, with what was noted
\* when it was called.
Outcome(call, result) ==
    [op |-> call.op, sid |-> call.sid, result |-> result,
     calledAt |-> call.calledAt, late |-> call.late, stale |-> call.stale]

NoOutcome == [op |-> "none", sid |-> 0, result |-> Resolved,
              calledAt |-> 0, late |-> FALSE, stale |-> FALSE]

\* ------------------------------------------- RoleManager call bookkeeping
NoRoleResult == [kind |-> "none", role |-> {}, value |-> FALSE]
RoleReturned(roleSet) ==
    [kind |-> IF roleSet = {} THEN "null" ELSE "role", role |-> roleSet,
     value |-> FALSE]
BoolReturned(b) == [kind |-> "bool", role |-> {}, value |-> b]
RoleThrown == [kind |-> "error", role |-> {}, value |-> FALSE]

\* A RoleManager call in flight: the function, the await it is suspended
\* at, the roleId looked up, validatePermissions' session and
\* requiredPermissions, and the array find().toArray() produced; and, of a
\* getRole call that reloads, every content the roles collection has had
\* since the call began.
RoleCall(op, pc, roleId, sessionSet, required) ==
    [op |-> op, pc |-> pc, roleId |-> roleId, session |-> sessionSet,
     required |-> required, found |-> {}, since |-> {}]

RoleOutcome(call, result, reloadFailed) ==
    [op |-> call.op, roleId |-> call.roleId, session |-> call.session,
     required |-> call.required, result |-> result,
     reloadFailed |-> reloadFailed, since |-> call.since]

NoRoleOutcome ==
    [op |-> "none", roleId |-> "", session |-> {}, required |-> {},
     result |-> NoRoleResult, reloadFailed |-> FALSE, since |-> {}]

\* --------------------------------------------- request-path bookkeeping
\* The session_token cookie of a request: absent, the token of a session, or
\* the id of a session.
NoCookie == [kind |-> "none", sid |-> 0]
TokenCookie(id) == [kind |-> "token", sid |-> id]
IdCookie(id) == [kind |-> "id", sid |-> id]

NoServed ==
    [id |-> 0, cookie |-> NoCookie, ctx |-> [ip |-> "", userAgent |-> "", device |-> ""],
     response |-> "none", session |-> {}, valid |-> FALSE, secure |-> {},
     repoFailed |-> FALSE, live |-> FALSE]

NoRouted ==
    [id |-> 0, guard |-> "none", session |-> {}, listed |-> FALSE,
     allowed |-> {}, decision |-> "none", response |-> "none"]

SweepIdle ==
    [pc |-> "idle", batch |-> <<>>, index |-> 0, queriedAt |-> 0,
     seen |-> [k \in {} |-> 0], failedAt |-> 0]

MonitorIdle ==
    [pc |-> "idle", session |-> {}, activity |-> {}, suspicious |-> {},
     alerts |-> <<>>]

PipelineIdle ==
    /\ requests = EmptyBag
    /\ served = NoServed
    /\ nextReq = 1
    /\ touches = [k \in {} |-> 0]
    /\ routeCalls = EmptyBag
    /\ routed = NoRouted
    /\ audit = <<>>
    /\ sweep = SweepIdle
    /\ monitor = MonitorIdle

\* ------------------------------------------------------------------ clock
Tick(delta) ==
    /\ ticks < MaxTicks
    /\ now' = now + delta
    /\ ticks' = ticks + 1

TickSession ==
    /\ \E delta \in {SessionTtl, SessionTtl + 1} : Tick(delta)
    /\ outcome' = NoOutcome
    /\ UNCHANGED <<cache, collection, nextId, issued, calls, destroyed, roleVars, pipelineVars>>

\* ----------------------------------------------------- sessionStore.create
\* Lines 38-55: build the session, cache.set, then await insertOne.
CreateCall(user, request) ==
    /\ BagCardinality(calls) < MaxCalls
    /\ nextId <= MaxSessions
    /\ LET session == UserSession(nextId, user.id, user.role, user.permissions,
                                  request.ip, request.userAgent, now)
       IN /\ cache' = MapSet(cache, session.id, session)
          /\ calls' = Suspend([StartCall("create", "insertOne", session.id,
                                         {session})
                                   EXCEPT !.calledAt = 0, !.stale = FALSE])
    /\ nextId' = nextId + 1
    /\ outcome' = NoOutcome
    /\ UNCHANGED <<now, ticks, collection, issued, destroyed, roleVars, pipelineVars>>

\* insertOne succeeds: the document is stored and create returns the session.
CreateInsertOk(call) ==
    /\ call \in Suspended("create", "insertOne")
    /\ collection' = MapSet(collection, call.sid,
                            CHOOSE s \in call.session : TRUE)
    /\ calls' = Remove(call)
    /\ outcome' = Outcome(call, Returned(call.session))
    /\ issued' = issued \cup {call.sid}
    /\ UNCHANGED <<now, ticks, cache, nextId, destroyed, roleVars, pipelineVars>>

\* insertOne rejects: the await throws out of create; nothing undoes cache.set.
CreateInsertFail(call) ==
    /\ call \in Suspended("create", "insertOne")
    /\ calls' = Remove(call)
    /\ outcome' = Outcome(call, Thrown)
    /\ UNCHANGED <<now, ticks, cache, collection, nextId, issued, destroyed, roleVars, pipelineVars>>

\* ---------------------------------------------------- sessionStore.destroy
\* The synchronous part of destroy: the entry leaves the cache.
DestroyCache(map, id) == MapDelete(map, id)
\* The awaited part of destroy: the document leaves the collection.
DestroyCollection(map, id) == MapDelete(map, id)
\* A destroy that treats a missing document as a failure.
DestroyResultStrict(wasPresent) == IF wasPresent THEN Resolved ELSE Thrown
\* What destroy resolves to; it does not depend on the id having been there.
DestroyResult(wasPresent) == Resolved

\* The session ids a caller can present: those some create handed out, and
\* ids that name no session.
CallerIds == issued \cup {UnknownId}

\* A caller (logout, the middleware at line 234, the cleanup job at line 349)
\* calls destroy with the id of a session it holds.
DestroyCall(id) ==
    /\ BagCardinality(calls) < MaxCalls
    /\ cache' = DestroyCache(cache, id)
    /\ calls' = Suspend(Settled(StartCall("destroy", "deleteOne", id, {}),
                                "deleteOne"))
    /\ outcome' = NoOutcome
    /\ UNCHANGED <<now, ticks, collection, nextId, issued, destroyed, roleVars, pipelineVars>>

\* deleteOne is applied and the destroy (called directly or by validate)
\* completes; validate then returns null (line 71).
DestroyFinish(call) ==
    /\ call \in Suspended("destroy", "deleteOne")
              \cup Suspended("validate", "deleteOne")
    /\ collection' = DestroyCollection(collection, call.sid)
    /\ LET done == DestroyResult(call.sid \in DOMAIN collection)
       IN outcome' = Outcome(call,
                             IF call.op = "validate" /\ done = Resolved
                             THEN Returned({}) ELSE done)
    /\ calls' = Remove(call)
    /\ destroyed' = destroyed \cup ({call.sid} \cap SessionIds)
    /\ UNCHANGED <<now, ticks, cache, nextId, issued, roleVars, pipelineVars>>

\* --------------------------------------------------- sessionStore.validate
\* Line 69: the session is unusable when there is none or it has expired.
Rejected(sessionSet) ==
    sessionSet = {} \/ (\E s \in sessionSet : Expired(s, now))

\* Lines 69-74, entered with the session found (or not) and the cache as it
\* is then: either destroy starts (its cache removal is synchronous) and the
\* call suspends at deleteOne, or the session is returned.
ValidateCheck(call, sessionSet, cacheNow, others) ==
    IF Rejected(sessionSet)
    THEN /\ cache' = DestroyCache(cacheNow, call.sid)
         /\ calls' = others (+) SetToBag({Settled(call, "deleteOne")})
         /\ outcome' = NoOutcome
    ELSE /\ cache' = cacheNow
         /\ calls' = others
         /\ outcome' = Outcome(call, Returned(sessionSet))

\* Lines 62-65: cache.get; a hit goes straight to the check, a miss issues
\* findOne and suspends.
ValidateCall(id) ==
    /\ BagCardinality(calls) < MaxCalls
    /\ LET hit == MapGet(cache, id)
           call == StartCall("validate", "findOne", id, {})
       IN IF hit # {}
          THEN ValidateCheck(call, hit, cache, calls)
          ELSE /\ calls' = Suspend(call)
               /\ cache' = cache
               /\ outcome' = NoOutcome
    /\ UNCHANGED <<now, ticks, collection, nextId, issued, destroyed, roleVars, pipelineVars>>

\* The database executes findOne({id}); the answer is on its way back.
FindOneRead(call) ==
    /\ call \in Suspended("validate", "findOne")
    /\ calls' = Replace(call, [call EXCEPT !.pc = "found",
                                          !.session = MapGet(collection, call.sid)])
    /\ outcome' = NoOutcome
    /\ UNCHANGED <<now, ticks, cache, collection, nextId, issued, destroyed, roleVars, pipelineVars>>

\* Lines 65-74 after the await: cache.set if a document came back, then the
\* check.
ValidateResume(call) ==
    /\ call \in Suspended("validate", "found")
    /\ LET found == call.session
           filled == IF found # {}
                     THEN MapSet(cache, call.sid, CHOOSE s \in found : TRUE)
                     ELSE cache
       IN ValidateCheck(call, found, filled, Remove(call))
    /\ UNCHANGED <<now, ticks, collection, nextId, issued, destroyed, roleVars, pipelineVars>>

\* ------------------------------------------------------- the session store
EmptyMap == [k \in {} |-> 0]

Init ==
    /\ now = StartTime
    /\ ticks = 0
    /\ cache = EmptyMap
    /\ collection = EmptyMap
    /\ nextId = 1
    /\ issued = {}
    /\ calls = EmptyBag
    /\ outcome = NoOutcome
    /\ destroyed = {}
    /\ roles = EmptyMap
    /\ lastUpdated = 0
    /\ rolesDb = {}
    /\ loaded = {}
    /\ roleCalls = EmptyBag
    /\ roleOutcome = NoRoleOutcome
    /\ PipelineIdle

Next ==
    \/ TickSession
    \/ \E user \in Users, request \in Requests : CreateCall(user, request)
    \/ \E call \in BagToSet(calls) : CreateInsertOk(call)
    \/ \E call \in BagToSet(calls) : CreateInsertFail(call)
    \/ \E id \in issued : DestroyCall(id)
    \/ \E call \in BagToSet(calls) : DestroyFinish(call)
    \/ \E id \in CallerIds : ValidateCall(id)
    \/ \E call \in BagToSet(calls) : FindOneRead(call)
    \/ \E call \in BagToSet(calls) : ValidateResume(call)

Spec == Init /\ [][Next]_vars

\* ------------------------------------------------------------ claims C1-C6
ValidateReturnedSession ==
    outcome.op = "validate" /\ outcome.result.kind = "session"

\* C1: once a destroy of a session id has completed, no validate called
\* afterwards for that id returns a session.
C1_NoResurrection == (outcome.op = "validate" /\ outcome.late)
                         => outcome.result.kind # "session"

\* C2: a validate called at a time now >= expiresAt (the instant
\* now = expiresAt included) returns NotFound, never the session.
C2_ExpiredAtBoundaryNotFound ==
    ValidateReturnedSession
        => \A s \in outcome.result.session : s.expiresAt > outcome.calledAt

\* C3: single-flight: at no time are two repository reads (findOne) for the
\* same session id in flight.
C3_SingleFlight ==
    \A id \in CallerIds \cup SessionIds :
        BagCardinality([c \in {d \in BagToSet(calls) :
                                   /\ d.op = "validate"
                                   /\ d.pc \in {"findOne", "found"}
                                   /\ d.sid = id} |-> calls[c]]) <= 1

\* C4: when create fails on the durable write, the cache holds no entry for
\* the new session id.
C4_FailedCreateRolledBack ==
    (outcome.op = "create" /\ outcome.result.kind = "error")
        => outcome.sid \notin DOMAIN cache

C6_RepositoryAuthoritative ==
    (outcome.op = "validate" /\ outcome.stale)
        => outcome.result.kind # "session"

\* ============================================================ RoleManager
RoleSuspended(pc) == {c \in BagToSet(roleCalls) : c.pc = pc}

\* Lines 97-100: clear the map, then set every role of the array.  There is
\* no await between the two, so no other code runs in between.
RolesMapNoClear(old, found) ==
    [id \in (DOMAIN old) \cup {r.id : r \in found} |->
        IF \E r \in found : r.id = id
        THEN CHOOSE r \in found : r.id = id
        ELSE old[id]]
RolesMap(old, found) ==
    [id \in {r.id : r \in found} |-> CHOOSE r \in found : r.id = id]

\* Line 108: Date.now() - lastUpdated.getTime() > 5 * 60 * 1000
NeedsRefresh == now - lastUpdated > RefreshInterval

\* Lines 126-128: every required permission is among the role's.
RoleGrants(role, required) == \A permission \in required :
                                  permission \in role.permissions

\* What the call returns once getRole has its answer: getRole the role (or
\* null), validatePermissions its verdict (lines 124-128).
RoleAnswer(call, rolesNow) ==
    LET role == MapGet(rolesNow, call.roleId)
    IN IF call.op = "getRole" THEN RoleReturned(role)
       ELSE IF role = {} THEN BoolReturned(FALSE)
       ELSE BoolReturned(\A r \in role : RoleGrants(r, call.required))

\* Lines 106-112 up to the first await: a stale cache starts loadRoles,
\* which suspends at find().toArray(); a fresh one answers at once.
EnterGetRole(call, others) ==
    IF NeedsRefresh
    THEN /\ roleCalls' = others (+) SetToBag({[call EXCEPT
                                 !.pc = "find",
                                 !.since = IF call.op = "getRole"
                                           THEN {rolesDb} ELSE {}]})
         /\ roleOutcome' = NoRoleOutcome
    ELSE /\ roleCalls' = others
         /\ roleOutcome' = RoleOutcome(call, RoleAnswer(call, roles), FALSE)

GetRoleCall(roleId) ==
    /\ BagCardinality(roleCalls) < MaxRoleCalls
    /\ EnterGetRole(RoleCall("getRole", "start", roleId, {}, {}), roleCalls)
    /\ UNCHANGED <<now, ticks, sessionVars, pipelineVars, roles, lastUpdated, rolesDb, loaded>>

\* sessionStore.getCurrentSession(userId): the user's session in the cache.
CurrentSession(userId) == {s \in {cache[id] : id \in DOMAIN cache} :
                              s.userId = userId}

\* Lines 120-123: the user's current session; none gives false, otherwise
\* getRole(session.role).
ValidatePermissionsCall(userId, required) ==
    /\ BagCardinality(roleCalls) < MaxRoleCalls
    /\ \/ /\ CurrentSession(userId) = {}
          /\ roleCalls' = roleCalls
          /\ roleOutcome' =
                 RoleOutcome(RoleCall("validatePermissions", "start", "", {},
                                      required),
                             BoolReturned(FALSE), FALSE)
       \/ \E session \in CurrentSession(userId) :
              EnterGetRole(RoleCall("validatePermissions", "start",
                                    session.role, {session}, required),
                           roleCalls)
    /\ UNCHANGED <<now, ticks, sessionVars, pipelineVars, roles, lastUpdated, rolesDb, loaded>>

\* Line 95: the database executes find(); the array is on its way back.
FindRead(call) ==
    /\ call \in RoleSuspended("find")
    /\ roleCalls' = (roleCalls (-) SetToBag({call}))
                       (+) SetToBag({[call EXCEPT !.pc = "loaded",
                                                  !.found = rolesDb]})
    /\ loaded' = loaded \cup {rolesDb}
    /\ roleOutcome' = NoRoleOutcome
    /\ UNCHANGED <<now, ticks, sessionVars, pipelineVars, roles, lastUpdated, rolesDb>>

\* Line 95 rejects: the error leaves loadRoles before line 97 and, nothing
\* catching it, leaves getRole (line 109) and validatePermissions (line 123).
FindFail(call) ==
    /\ call \in RoleSuspended("find")
    /\ roleCalls' = roleCalls (-) SetToBag({call})
    /\ roleOutcome' = RoleOutcome(call, RoleThrown, TRUE)
    /\ UNCHANGED <<now, ticks, sessionVars, pipelineVars, roles, lastUpdated, rolesDb, loaded>>

\* Lines 97-102 after the await: the map is cleared and refilled and
\* lastUpdated set, in one run of the event loop; loadRoles resolves.
LoadResume(call) ==
    /\ call \in RoleSuspended("loaded")
    /\ roles' = RolesMap(roles, call.found)
    /\ lastUpdated' = now
    /\ roleCalls' = (roleCalls (-) SetToBag({call}))
                       (+) SetToBag({[call EXCEPT !.pc = "refilled",
                                                  !.found = {}]})
    /\ roleOutcome' = NoRoleOutcome
    /\ UNCHANGED <<now, ticks, sessionVars, pipelineVars, rolesDb, loaded>>

\* Line 112 (and 124-128): getRole resumes after its await of loadRoles and
\* answers from the map as it is then.
LookupResume(call) ==
    /\ call \in RoleSuspended("refilled")
    /\ roleCalls' = roleCalls (-) SetToBag({call})
    /\ roleOutcome' = RoleOutcome(call, RoleAnswer(call, roles), FALSE)
    /\ UNCHANGED <<now, ticks, sessionVars, pipelineVars, roles, lastUpdated, rolesDb, loaded>>

\* An administrator changes the roles collection.
RolesDbChange(table) ==
    /\ table # rolesDb
    /\ rolesDb' = table
    /\ roleCalls' = BagOfAll(LAMBDA c : IF c.since = {} THEN c
                                        ELSE [c EXCEPT !.since = @ \cup {table}],
                             roleCalls)
    /\ roleOutcome' = NoRoleOutcome
    /\ UNCHANGED <<now, ticks, sessionVars, pipelineVars, roles, lastUpdated, loaded>>

TickRoles ==
    /\ \E delta \in {RefreshInterval, RefreshInterval + 1} : Tick(delta)
    /\ roleOutcome' = NoRoleOutcome
    /\ UNCHANGED <<sessionVars, pipelineVars, roles, lastUpdated, rolesDb, loaded, roleCalls>>

\* The sessions validatePermissions can meet: none, or one created at
\* start-up for the user, as a viewer granted {read} or as an admin
\* granted {read, write}.
RoleUsers == {[id |-> "u1", role |-> "viewer", permissions |-> {"read"}],
              [id |-> "u1", role |-> "admin",
               permissions |-> {"read", "write"}]}
SessionAtStart(role, permissions) ==
    UserSession(1, "u1", role, permissions, "1.1.1.1", "ua1", StartTime)

InitRoles ==
    /\ now = StartTime
    /\ ticks = 0
    /\ \/ cache = EmptyMap /\ nextId = 1 /\ issued = {}
       \/ /\ \E user \in RoleUsers :
                 cache = MapSet(EmptyMap, 1,
                                SessionAtStart(user.role, user.permissions))
          /\ nextId = 2
          /\ issued = {1}
    /\ collection = cache
    /\ calls = EmptyBag
    /\ outcome = NoOutcome
    /\ destroyed = {}
    /\ roles = EmptyMap
    /\ lastUpdated = 0
    /\ rolesDb = RolesAtStart
    /\ loaded = {}
    /\ roleCalls = EmptyBag
    /\ roleOutcome = NoRoleOutcome
    /\ PipelineIdle

NextRoles ==
    \/ TickRoles
    \/ \E table \in RoleTables : RolesDbChange(table)
    \/ \E roleId \in RoleIds : GetRoleCall(roleId)
    \/ \E user \in Users, required \in PermSets :
          ValidatePermissionsCall(user.id, required)
    \/ \E call \in BagToSet(roleCalls) : FindRead(call)
    \/ \E call \in BagToSet(roleCalls) : FindFail(call)
    \/ \E call \in BagToSet(roleCalls) : LoadResume(call)
    \/ \E call \in BagToSet(roleCalls) : LookupResume(call)

SpecRoles == InitRoles /\ [][NextRoles]_vars

\* ----------------------------------------------------------- claims C7-C10
\* C7: at no time is more than one reload of the role repository in flight,
\* however many getRole calls arrive.
C7_SingleReload ==
    BagCardinality([c \in RoleSuspended("find") \cup RoleSuspended("loaded")
                       |-> roleCalls[c]]) <= 1

\* C8: a getRole call whose reload failed still returns the answer the
\* (unchanged, possibly stale) cache gives.
C8_FailedReloadFallsBack ==
    (roleOutcome.op = "getRole" /\ roleOutcome.reloadFailed)
        => roleOutcome.result = RoleReturned(MapGet(roles, roleOutcome.roleId))

\* The map holds exactly the roles of the array, each under its id.
HoldsExactly(map, found) ==
    /\ DOMAIN map = {r.id : r \in found}
    /\ \A r \in found : map[r.id] = r

\* C9: whenever a lookup can read the role cache (it has been loaded once),
\* the cache is one complete array that find() returned, and every role or
\* null a lookup returns is what such a complete array gives.
C9_AtomicReplace ==
    /\ lastUpdated = 0 => roles = EmptyMap
    /\ lastUpdated # 0 => \E found \in loaded : HoldsExactly(roles, found)
    /\ roleOutcome.result.kind \in {"role", "null"}
          => \E found \in loaded :
                 roleOutcome.result.role =
                     {r \in found : r.id = roleOutcome.roleId}

\* A lookup has been answered from a loaded cache while another call's
\* reload, holding a different array, is about to replace that cache.
C9_Witness ==
    /\ lastUpdated # 0
    /\ roleOutcome.result.kind \in {"role", "null"}
    /\ \E c \in RoleSuspended("loaded") : ~HoldsExactly(roles, c.found)

\* C10: validatePermissions answers true exactly when every required
\* permission is in the permission set granted to the session at creation.
C10_SessionPermissionsDecide ==
    (roleOutcome.op = "validatePermissions" /\ roleOutcome.session # {}
        /\ roleOutcome.result.kind = "bool")
        => \A s \in roleOutcome.session :
               roleOutcome.result.value
                   <=> (roleOutcome.required \subseteq s.permissions)

\* ===================================================== the request path
MaxRequests == 1      \* requests sessionMiddleware accepts in one behaviour

\* What a client can send along: its address, its user agent and the device
\* signals generateDeviceId hashes.
RequestContexts ==
    [ip : {"1.1.1.1", "2.2.2.2"}, userAgent : {"ua1", "ua2"},
     device : {"d1", "d2"}]
\* The request that signed the user in.
OriginContext == [ip |-> "1.1.1.1", userAgent |-> "ua1", device |-> "d1"]

\* generateDeviceId: a hash of the request's device signals.
GenerateDeviceId(ctx) == <<"deviceId", ctx.device>>

\* session.metadata.deviceId, as a set of at most one element: create
\* (lines 46-50) writes ip, userAgent and lastActive only, so the field is
\* there only if the fourth argument of line 150 were honoured.
BoundDeviceId(session) ==
    IF "deviceId" \in DOMAIN session.metadata
    THEN {session.metadata.deviceId} ELSE {}

\* The session with the metadata argument of lines 150-154 stored.
WithDeviceId(session, ctx) ==
    [session EXCEPT !.metadata =
        [ip |-> session.metadata.ip, userAgent |-> session.metadata.userAgent,
         lastActive |-> session.metadata.lastActive,
         deviceId |-> GenerateDeviceId(ctx)]]

\* validateIP, validateUserAgent, validateDeviceId: the current value is the
\* bound one.
ValidateIP(current, bound) == current = bound
ValidateUserAgent(current, bound) == current = bound
ValidateDeviceId(current, boundSet) == boundSet = {current}

\* Lines 172-182: the three checks, in order.
SecurityChecks(ctx, session) ==
    <<ValidateIP(ctx.ip, session.metadata.ip),
      ValidateUserAgent(ctx.userAgent, session.metadata.userAgent),
      ValidateDeviceId(GenerateDeviceId(ctx), BoundDeviceId(session))>>

\* A validateSession that is content with any one check.
AllSecureSome(checks) == \E i \in DOMAIN checks : checks[i] = TRUE
\* Line 184: securityChecks.every(check => check === true)
AllSecure(checks) == \A i \in DOMAIN checks : checks[i] = TRUE

\* The ids under which the store can hold what the cookie carries: the
\* store is keyed by session.id, and no id equals a token.
StoreKeys(cookie) == IF cookie.kind = "id" THEN {cookie.sid} ELSE {}

\* cache.get / findOne({id}) / cache.delete / deleteOne({id}) for such a key
Lookup(map, keys) == UNION {MapGet(map, k) : k \in keys}
DeleteAt(map, keys) ==
    IF keys = {} THEN map ELSE DestroyCache(map, CHOOSE k \in keys : TRUE)

\* updateLastActive on the cache: the entry, if there, gets the current time.
Touch(map, id, t) ==
    IF id \in DOMAIN map
    THEN [map EXCEPT ![id].metadata.lastActive = t] ELSE map

\* A sessionMiddleware invocation in flight: the request, whose validate is
\* running (the middleware's at line 219 or validateSession's at line 168)
\* on which key, the await it is suspended at, validate's local `session`
\* (found), the middleware's `session`, and what has been noted so far.
Request(id, cookie, ctx) ==
    [id |-> id, cookie |-> cookie, ctx |-> ctx, phase |-> "middleware",
     pc |-> "findOne", keys |-> StoreKeys(cookie), found |-> {},
     session |-> {}, valid |-> FALSE, secure |-> {}, repoFailed |-> FALSE,
     live |-> \E k \in {cookie.sid} \cap DOMAIN collection :
                  ~Expired(collection[k], now)]

Served(req, response) ==
    [id |-> req.id, cookie |-> req.cookie, ctx |-> req.ctx,
     response |-> response, session |-> req.session, valid |-> req.valid,
     secure |-> req.secure, repoFailed |-> req.repoFailed, live |-> req.live]

InFlight(phases, pcs) ==
    {r \in BagToSet(requests) : r.phase \in phases /\ r.pc \in pcs}
Without(req) == requests (-) SetToBag({req})
At(req, pc) == [req EXCEPT !.pc = pc]

\* The middleware returns a response (or calls next()).
Respond(req, response, cacheNow, others) ==
    /\ requests' = others
    /\ served' = Served(req, response)
    /\ cache' = cacheNow
    /\ touches' = touches

\* The middleware stays suspended at an await.
Await(req, cacheNow, others) ==
    /\ requests' = others (+) SetToBag({req})
    /\ served' = NoServed
    /\ cache' = cacheNow
    /\ touches' = touches

\* The write updateLastActive issues: whose lastActive, the value, and
\* whether it is pending, stored or failed.
TouchWrite(id, t, state) == [sid |-> id, at |-> t, state |-> state]

\* What the promise of updateLastActive settles to, given the state of its
\* write: the write is not awaited, so the promise resolves whatever happens.
UpdateLastActiveResultAwaited(write) ==
    IF write.state = "failed" THEN Thrown ELSE Resolved
UpdateLastActiveResult(write) == Resolved

\* A middleware that leaves out line 247.
AfterTouchNoNext(result) == IF result = Resolved THEN "none" ELSE "500"
\* Lines 245-253: next() once the awaited promise resolved; a rejection goes
\* to the catch.
AfterTouch(result) == IF result = Resolved THEN "next" ELSE "500"

\* A catch that lets the request through.
CaughtOpen == "next"
\* Lines 248-253: any error thrown inside the try is answered with 500.
Caught == "500"

\* A middleware that goes on to line 242 whatever isSecure is.
SecurityResultLenient(req, isSecure, cacheNow, others) ==
    LET id == (CHOOSE s \in req.session : TRUE).id
        next == [req EXCEPT !.phase = "middleware", !.found = {},
                            !.keys = {id}, !.secure = {isSecure}]
    IN /\ requests' = others (+) SetToBag({At(next, "touch")})
       /\ served' = NoServed
       /\ cache' = Touch(cacheNow, id, now)
       /\ touches' = MapSet(touches, req.id, TouchWrite(id, now, "pending"))

\* Lines 233-245, with isSecure known: a failed check starts destroy (its
\* cache removal is synchronous) and suspends at its deleteOne; a passed one
\* attaches the session, updates lastActive and suspends at line 245.
SecurityResult(req, isSecure, cacheNow, others) ==
    LET id == (CHOOSE s \in req.session : TRUE).id
        next == [req EXCEPT !.phase = "middleware", !.found = {},
                            !.keys = {id}, !.secure = {isSecure}]
    IN IF ~isSecure
       THEN Await(At(next, "destroy"), DestroyCache(cacheNow, id), others)
       ELSE /\ requests' = others (+) SetToBag({At(next, "touch")})
            /\ served' = NoServed
            /\ cache' = Touch(cacheNow, id, now)
            /\ touches' = MapSet(touches, req.id, TouchWrite(id, now, "pending"))

\* Lines 168-179: validate has returned to validateSession; without a
\* session the answer is false, with one generateDeviceId is awaited.
SecurityReturns(req, sessionSet, cacheNow, others) ==
    IF sessionSet = {}
    THEN SecurityResult(req, FALSE, cacheNow, others)
    ELSE Await([req EXCEPT !.pc = "deviceId", !.found = sessionSet,
                           !.valid = TRUE],
               cacheNow, others)

\* Line 70 of a validate running for the middleware: destroy starts (its
\* cache removal is synchronous) and the request suspends at its deleteOne.
StartDestroy(req, cacheNow, others) ==
    Await([req EXCEPT !.pc = "deleteOne", !.found = {}],
          DeleteAt(cacheNow, req.keys), others)

\* Lines 62-74 of the validate called by validateSession (line 168) with
\* the id of the session the middleware holds: cache.get; a hit is checked
\* and destroyed or returned, a miss suspends at findOne.
SecurityEnter(req, cacheNow, others) ==
    LET hit == Lookup(cacheNow, req.keys)
    IN IF hit = {}
       THEN Await([req EXCEPT !.pc = "findOne", !.found = {}], cacheNow, others)
       ELSE IF Rejected(hit)
            THEN StartDestroy(req, cacheNow, others)
            ELSE SecurityReturns(req, hit, cacheNow, others)

\* Lines 220-231: validate has returned to the middleware; null is answered
\* with 401, a session goes to validateSession, which calls validate with
\* session.id.
MiddlewareReturns(req, sessionSet, cacheNow, others) ==
    IF sessionSet = {}
    THEN Respond(req, "401 Invalid session", cacheNow, others)
    ELSE SecurityEnter([req EXCEPT !.phase = "security",
                                   !.session = sessionSet,
                                   !.keys = {s.id : s \in sessionSet}],
                       cacheNow, others)

\* validate returns to whoever called it.
ValidateReturns(req, sessionSet, cacheNow, others) ==
    IF req.phase = "middleware"
    THEN MiddlewareReturns(req, sessionSet, cacheNow, others)
    ELSE SecurityReturns(req, sessionSet, cacheNow, others)

\* Lines 69-74, entered with the session found (or not): destroy starts, or
\* the session is returned.
Decide(req, sessionSet, cacheNow, others) ==
    IF Rejected(sessionSet)
    THEN StartDestroy(req, cacheNow, others)
    ELSE ValidateReturns(req, sessionSet, cacheNow, others)

\* Lines 62-65: cache.get; a hit goes to the check, a miss suspends at
\* findOne.
Enter(req, cacheNow, others) ==
    LET hit == Lookup(cacheNow, req.keys)
    IN IF hit # {}
       THEN Decide(req, hit, cacheNow, others)
       ELSE Await([req EXCEPT !.pc = "findOne", !.found = {}], cacheNow, others)

\* ------------------------------------------------------ sessionMiddleware
\* Lines 208-219: a request arrives; without the cookie it is answered 401,
\* with one validate is called with the cookie's value.
Arrive(cookie, ctx) ==
    /\ nextReq <= MaxRequests
    /\ nextReq' = nextReq + 1
    /\ LET req == Request(nextReq, cookie, ctx)
       IN IF cookie.kind = "none"
          THEN Respond(req, "401 Unauthorized", cache, requests)
          ELSE Enter(req, cache, requests)
    /\ UNCHANGED <<now, ticks, collection, nextId, issued, calls, outcome,
                   destroyed, roleVars, routeCalls, routed, audit, sweep, monitor>>

\* The database executes findOne({id}); the answer is on its way back.
RequestFindOneRead(req) ==
    /\ req \in InFlight({"middleware", "security"}, {"findOne"})
    /\ Await([req EXCEPT !.pc = "found",
                         !.found = Lookup(collection, req.keys)],
             cache, Without(req))
    /\ UNCHANGED <<now, ticks, collection, nextId, issued, calls, outcome,
                   destroyed, roleVars, nextReq, routeCalls, routed, audit, sweep, monitor>>

\* Lines 65-74 after the await: cache.set if a document came back, then the
\* check.
RequestValidateResume(req) ==
    /\ req \in InFlight({"middleware", "security"}, {"found"})
    /\ LET filled == IF req.found # {}
                     THEN MapSet(cache, CHOOSE k \in req.keys : TRUE,
                                 CHOOSE s \in req.found : TRUE)
                     ELSE cache
       IN Decide(req, req.found, filled, Without(req))
    /\ UNCHANGED <<now, ticks, collection, nextId, issued, calls, outcome,
                   destroyed, roleVars, nextReq, routeCalls, routed, audit, sweep, monitor>>

\* deleteOne of the destroy inside validate (line 70) is applied; validate
\* returns null (line 71).
RequestValidateDestroyed(req) ==
    /\ req \in InFlight({"middleware", "security"}, {"deleteOne"})
    /\ collection' = DeleteAt(collection, req.keys)
    /\ destroyed' = destroyed \cup req.keys
    /\ ValidateReturns(req, {}, cache, Without(req))
    /\ UNCHANGED <<now, ticks, nextId, issued, calls, outcome,
                   roleVars, nextReq, routeCalls, routed, audit, sweep, monitor>>

\* generateDeviceId resolves (line 179); lines 172-184 give isSecure.
RequestDeviceId(req) ==
    /\ req \in InFlight({"security"}, {"deviceId"})
    /\ LET session == CHOOSE s \in req.found : TRUE
       IN SecurityResult(req, AllSecure(SecurityChecks(req.ctx, session)),
                         cache, Without(req))
    /\ UNCHANGED <<now, ticks, collection, nextId, issued, calls, outcome,
                   destroyed, roleVars, nextReq, routeCalls, routed, audit, sweep, monitor>>

\* deleteOne of the destroy at line 234 is applied; the request is answered
\* 401.
RequestDestroyed(req) ==
    /\ req \in InFlight({"middleware"}, {"destroy"})
    /\ collection' = DeleteAt(collection, req.keys)
    /\ destroyed' = destroyed \cup req.keys
    /\ Respond(req, "401 Security check failed", cache, Without(req))
    /\ UNCHANGED <<now, ticks, nextId, issued, calls, outcome,
                   roleVars, nextReq, routeCalls, routed, audit, sweep, monitor>>

\* A repository call of the chain (findOne, or deleteOne of either destroy)
\* rejects: the error goes up to the middleware's catch.
RequestRepositoryFail(req) ==
    /\ req \in InFlight({"middleware", "security"},
                        {"findOne", "deleteOne", "destroy"})
    /\ Respond([req EXCEPT !.repoFailed = TRUE], Caught, cache, Without(req))
    /\ UNCHANGED <<now, ticks, collection, nextId, issued, calls, outcome,
                   destroyed, roleVars, nextReq, routeCalls, routed, audit, sweep, monitor>>

\* Lines 245-247: the awaited updateLastActive has settled.
RequestTouched(req) ==
    /\ req \in InFlight({"middleware"}, {"touch"})
    /\ Respond(req, AfterTouch(UpdateLastActiveResult(touches[req.id])),
               cache, Without(req))
    /\ UNCHANGED <<now, ticks, collection, nextId, issued, calls, outcome,
                   destroyed, roleVars, nextReq, routeCalls, routed, audit, sweep, monitor>>

\* The write updateLastActive left behind reaches the collection.
TouchPersisted(id) ==
    /\ id \in DOMAIN touches /\ touches[id].state = "pending"
    /\ touches' = [touches EXCEPT ![id].state = "stored"]
    /\ collection' = Touch(collection, touches[id].sid, touches[id].at)
    /\ served' = NoServed
    /\ UNCHANGED <<now, ticks, cache, nextId, issued, calls, outcome, destroyed,
                   roleVars, requests, nextReq, routeCalls, routed, audit, sweep, monitor>>

\* The write fails; the failure is logged and nothing else happens.
TouchPersistFailed(id) ==
    /\ id \in DOMAIN touches /\ touches[id].state = "pending"
    /\ touches' = [touches EXCEPT ![id].state = "failed"]
    /\ served' = NoServed
    /\ UNCHANGED <<now, ticks, cache, collection, nextId, issued, calls, outcome,
                   destroyed, roleVars, requests, nextReq, routeCalls, routed,
                   audit, sweep, monitor>>

TickRequests ==
    /\ \E delta \in {SessionTtl, SessionTtl + 1} : Tick(delta)
    /\ served' = NoServed
    /\ UNCHANGED <<sessionVars, roleVars, requests, nextReq, touches,
                   routeCalls, routed, audit, sweep, monitor>>

\* A session created at start-up through createSecureSession by the
\* request OriginContext, with the metadata create stores and with the
\* metadata createSecureSession hands over.
SessionsAtStart ==
    LET session == SessionAtStart("viewer", {"read"})
    IN {session, WithDeviceId(session, OriginContext)}

InitRequests ==
    /\ now = StartTime
    /\ ticks = 0
    /\ \E session \in SessionsAtStart :
          /\ collection = MapSet(EmptyMap, 1, session)
          /\ cache \in {EmptyMap, collection}
    /\ nextId = 2
    /\ issued = {1}
    /\ calls = EmptyBag
    /\ outcome = NoOutcome
    /\ destroyed = {}
    /\ roles = EmptyMap
    /\ lastUpdated = 0
    /\ rolesDb = RolesAtStart
    /\ loaded = {}
    /\ roleCalls = EmptyBag
    /\ roleOutcome = NoRoleOutcome
    /\ PipelineIdle

Cookies == {NoCookie, TokenCookie(1), IdCookie(1)}

NextRequests ==
    \/ TickRequests
    \/ \E cookie \in Cookies, ctx \in RequestContexts : Arrive(cookie, ctx)
    \/ \E req \in BagToSet(requests) : RequestFindOneRead(req)
    \/ \E req \in BagToSet(requests) : RequestValidateResume(req)
    \/ \E req \in BagToSet(requests) : RequestValidateDestroyed(req)
    \/ \E req \in BagToSet(requests) : RequestDeviceId(req)
    \/ \E req \in BagToSet(requests) : RequestDestroyed(req)
    \/ \E req \in BagToSet(requests) : RequestRepositoryFail(req)
    \/ \E req \in BagToSet(requests) : RequestTouched(req)
    \/ \E id \in DOMAIN touches : TouchPersisted(id)
    \/ \E id \in DOMAIN touches : TouchPersistFailed(id)

SpecRequests == InitRequests /\ [][NextRequests]_vars

\* ------------------------------------------------------------ claim C11
\* C11: for a valid session, the security check returns true only if the
\* request's ip, userAgent and deviceId all equal the values bound in the
\* session's metadata; if any of the three differs (in particular exactly
\* one, the other two matching) it returns false.
C11_AllThreeMustMatch ==
    (served.valid /\ served.secure # {})
        => \A s \in served.session :
               served.secure =
                   {/\ served.ctx.ip = s.metadata.ip
                    /\ served.ctx.userAgent = s.metadata.userAgent
                    /\ "deviceId" \in DOMAIN s.metadata
                    /\ s.metadata.deviceId = <<"deviceId", served.ctx.device>>}

\* A request whose address alone differs from the bound values has been
\* checked against a valid session.
C11_Witness ==
    /\ served.valid /\ served.secure = {FALSE}
    /\ \E s \in served.session :
          /\ served.ctx.ip # s.metadata.ip
          /\ served.ctx.userAgent = s.metadata.userAgent
          /\ BoundDeviceId(s) = {GenerateDeviceId(served.ctx)}

\* ------------------------------------------------------------ claim C12
\* The request carries the cookie of the session, which was live when the
\* request arrived, and comes from another address with the user agent and
\* the device of the sign-in; no repository call failed on its way.
MismatchedAddress(r) ==
    /\ r.cookie.kind \in {"token", "id"}
    /\ r.live
    /\ ~r.repoFailed
    /\ r.ctx.ip # OriginContext.ip
    /\ r.ctx.userAgent = OriginContext.userAgent
    /\ r.ctx.device = OriginContext.device

\* C12: a request for a live session that arrives from a different address
\* (user agent and device matching) is answered as unauthenticated without
\* reaching the handler, and when it is answered the session is gone from
\* cache and collection, so that the next validate of its id finds nothing.
C12_MismatchDestroysSession ==
    MismatchedAddress(served)
        => /\ served.response \in {"401 Invalid session",
                                   "401 Security check failed"}
           /\ served.secure # {TRUE}
           /\ served.cookie.sid \notin DOMAIN cache
           /\ served.cookie.sid \notin DOMAIN collection

\* ====================================================== route protection
MaxRouteCalls == 2    \* requests the route guards take in one behaviour

\* The sessions a route guard can find attached to a request.
RouteSessions ==
    {SessionAtStart("viewer", {"read"}),
     SessionAtStart("viewer", {"read", "write"}),
     SessionAtStart("admin", {"read", "write"})}
\* The role lists a route can be declared with.
RoleLists == SUBSET RoleIds

\* A guard that admits on the strength of the permission set as well.
IncludesOrWriter(list, session) ==
    session.role \in list \/ "write" \in session.permissions
\* roles.includes(session.role)
Includes(list, session) == session.role \in list

\* A withRoles that answers every refusal alike.
WithRolesDecisionConflated(sessionSet, list) ==
    IF sessionSet = {} \/ (\E s \in sessionSet : ~Includes(list, s))
    THEN "401" ELSE "allow"
\* Lines 267-281: 401 without a session, 403 when the role is not in the list.
WithRolesDecision(sessionSet, list) ==
    IF sessionSet = {} THEN "401"
    ELSE IF \E s \in sessionSet : ~Includes(list, s) THEN "403"
    ELSE "allow"

\* routes.mdx lines 333-341: to the login page without a session, to
\* /unauthorized when config.roles is given and lacks the role, else on.
WithAuthDecision(sessionSet, listed, list) ==
    IF sessionSet = {} THEN "redirect /auth/login"
    ELSE IF listed /\ (\E s \in sessionSet : ~Includes(list, s))
         THEN "redirect /unauthorized"
    ELSE "next"

\* Lines 284-290: the entry withRoles hands to auditLogger.log.
AccessEntry(session, resource) ==
    [type |-> "access", userId |-> session.userId, role |-> session.role,
     resource |-> resource, allowed |-> TRUE]

\* auditLogger.log resolves: the sink has appended the entry to the log.
Log(entries, entry) == Append(entries, entry)

\* Lines 284-292: next() once the awaited log call resolved; a rejection
\* leaves withRoles, which has no try/catch, before line 292.
AfterLog(result) == IF result = Resolved THEN "next" ELSE "error"

RouteCall(id, guard, sessionSet, listed, list) ==
    [id |-> id, guard |-> guard, session |-> sessionSet, listed |-> listed,
     allowed |-> list, pc |-> "auditLog"]
Routed(call, decision, response) ==
    [id |-> call.id, guard |-> call.guard, session |-> call.session,
     listed |-> call.listed, allowed |-> call.allowed, decision |-> decision,
     response |-> response]

\* Lines 267-290: the function withRoles(roles) returned runs for request
\* id with that request.session; a refusal is returned at once, otherwise
\* auditLogger.log is called and the call suspends at line 284.
WithRolesEnter(id, sessionSet, list) ==
    LET call == RouteCall(id, "withRoles", sessionSet, TRUE, list)
        decision == WithRolesDecision(sessionSet, list)
    IN IF decision = "allow"
       THEN /\ routeCalls' = routeCalls (+) SetToBag({call})
            /\ routed' = NoRouted
       ELSE /\ routeCalls' = routeCalls
            /\ routed' = Routed(call, decision, decision)

\* withRoles(roles) is invoked for a new request.
WithRolesCall(sessionSet, list) ==
    /\ nextReq <= MaxRouteCalls
    /\ nextReq' = nextReq + 1
    /\ WithRolesEnter(nextReq, sessionSet, list)
    /\ UNCHANGED <<now, ticks, sessionVars, roleVars, requests, served, touches,
                   audit, sweep, monitor>>

\* Line 292: the sink has written the entry and the awaited log call has
\* resolved; next() runs the handler.
WithRolesResume(call) ==
    /\ call \in BagToSet(routeCalls)
    /\ routeCalls' = routeCalls (-) SetToBag({call})
    /\ audit' = Log(audit, AccessEntry(CHOOSE x \in call.session : TRUE,
                                       call.id))
    /\ routed' = Routed(call, "allow", AfterLog(Resolved))
    /\ UNCHANGED <<now, ticks, sessionVars, roleVars, requests, served, nextReq,
                   touches, sweep, monitor>>

\* The sink fails and the awaited log call rejects.
WithRolesLogFailed(call) ==
    /\ call \in BagToSet(routeCalls)
    /\ routeCalls' = routeCalls (-) SetToBag({call})
    /\ routed' = Routed(call, "allow", AfterLog(Thrown))
    /\ UNCHANGED <<now, ticks, sessionVars, roleVars, requests, served, nextReq,
                   touches, audit, sweep, monitor>>

\* routes.mdx lines 331-341: withAuth(config) with the session getSession
\* resolved to; config.roles is given (listed) or not.
WithAuth(sessionSet, listed, list) ==
    /\ nextReq <= MaxRouteCalls
    /\ nextReq' = nextReq + 1
    /\ LET decision == WithAuthDecision(sessionSet, listed, list)
       IN routed' = Routed(RouteCall(nextReq, "withAuth", sessionSet, listed,
                                     list),
                           decision, decision)
    /\ UNCHANGED <<now, ticks, sessionVars, roleVars, requests, served, touches,
                   routeCalls, audit, sweep, monitor>>

InitRoutes ==
    /\ now = StartTime
    /\ ticks = 0
    /\ \E session \in RouteSessions :
          /\ collection = MapSet(EmptyMap, 1, session)
          /\ cache = collection
    /\ nextId = 2
    /\ issued = {1}
    /\ calls = EmptyBag
    /\ outcome = NoOutcome
    /\ destroyed = {}
    /\ roles = EmptyMap
    /\ lastUpdated = 0
    /\ rolesDb = RolesAtStart
    /\ loaded = {}
    /\ roleCalls = EmptyBag
    /\ roleOutcome = NoRoleOutcome
    /\ PipelineIdle

\* request.session: nothing, or the session the store holds.
Attached == {{}} \cup {{collection[k]} : k \in DOMAIN collection}

NextRoutes ==
    \/ \E sessionSet \in Attached, list \in RoleLists :
          WithRolesCall(sessionSet, list)
    \/ \E call \in BagToSet(routeCalls) : WithRolesResume(call)
    \/ \E call \in BagToSet(routeCalls) : WithRolesLogFailed(call)
    \/ \E sessionSet \in Attached, list \in RoleLists :
          WithAuth(sessionSet, TRUE, list)
    \/ \E sessionSet \in Attached : WithAuth(sessionSet, FALSE, {})

SpecRoutes == InitRoutes /\ [][NextRoutes]_vars

\* ------------------------------------------------------ claims C13-C15
\* The access entries written for the request numbered id.
AccessEntries(id) ==
    {i \in DOMAIN audit : audit[i].type = "access" /\ audit[i].resource = id}

\* C13: every authorization decision, refusal or admission, has exactly one
\* audit entry of type access, and its allowed field is the decision.
C13_EveryDecisionAudited ==
    routed.guard = "withRoles"
        => /\ Cardinality(AccessEntries(routed.id)) = 1
           /\ \A i \in AccessEntries(routed.id) :
                  audit[i].allowed = (routed.response = "next")

\* C14: a request without a session gets the Unauthorized outcome, a request
\* whose session has a role outside the list gets the Forbidden outcome;
\* the two are different and neither is the protected handler.
C14_UnauthorizedVsForbidden ==
    LET unauthorized == IF routed.guard = "withRoles" THEN "401"
                        ELSE "redirect /auth/login"
        forbidden == IF routed.guard = "withRoles" THEN "403"
                     ELSE "redirect /unauthorized"
    IN routed.response # "none"
        => /\ routed.session = {} => routed.response = unauthorized
           /\ (routed.listed /\ \E s \in routed.session : s.role \notin routed.allowed)
                 => routed.response = forbidden
           /\ routed.response = unauthorized => routed.session = {}
           /\ routed.response = forbidden => routed.session # {}

\* withRoles has refused a request whose session has a role outside the
\* list, after an earlier request.
C14_Witness ==
    /\ routed.guard = "withRoles" /\ routed.response = "403"
    /\ \E s \in routed.session : s.role \notin routed.allowed
    /\ routed.id > 1

\* C15: with a role list, the guard decides for the request exactly when a
\* session is attached and its role is in the list, whatever its permission
\* set, and the handler is reached on no other decision.
C15_RoleListDecides ==
    (routed.response # "none" /\ routed.listed)
        => /\ routed.decision \in {"allow", "next"}
                  <=> \E s \in routed.session : s.role \in routed.allowed
           /\ routed.response = "next"
                  => \E s \in routed.session : s.role \in routed.allowed

\* withRoles has admitted a session that lacks the write permission and
\* whose role is in the list.
C15_Witness ==
    /\ routed.guard = "withRoles" /\ routed.response = "next"
    /\ \E s \in routed.session :
          s.role \in routed.allowed /\ "write" \notin s.permissions

\* ======================================================== cleanupSessions
StoredSessions == 2   \* sessions in the store when the cleanup job runs

\* The documents, in the order the cursor yields them (by id).
InOrder(docs) ==
    CHOOSE seq \in [1..Cardinality(docs) -> docs] :
        \A i, j \in DOMAIN seq : i < j => seq[i].id < seq[j].id

\* Lines 344-346: find({expiresAt: {$lt: date}}).toArray()
FindExpired(map, date) ==
    InOrder({map[k] : k \in {x \in DOMAIN map : map[x].expiresAt < date}})

\* Lines 350-354: the entry cleanupSessions hands to auditLogger.log.
ExpiredEntry(session) ==
    [type |-> "session_expired", userId |-> session.userId,
     sessionId |-> session.id]

\* The job runs (line 343): new Date() is read and the query is issued.
SweepStart ==
    /\ sweep.pc = "idle"
    /\ sweep' = [sweep EXCEPT !.pc = "find", !.queriedAt = now]
    /\ UNCHANGED <<now, ticks, sessionVars, roleVars, requests, served, nextReq,
                   touches, routeCalls, routed, audit,
                   monitor>>

\* The database executes the query; the array is on its way back.
SweepFind ==
    /\ sweep.pc = "find"
    /\ sweep' = [sweep EXCEPT !.pc = "found", !.seen = collection,
                              !.batch = FindExpired(collection, sweep.queriedAt)]
    /\ UNCHANGED <<now, ticks, sessionVars, roleVars, requests, served, nextReq,
                   touches, routeCalls, routed, audit,
                   monitor>>

\* Lines 348-349: the loop takes the next session, if any, and calls
\* destroy, whose cache removal is synchronous; it suspends at deleteOne.
SweepNext(cacheNow) ==
    IF sweep.index < Len(sweep.batch)
    THEN /\ sweep' = [sweep EXCEPT !.pc = "deleteOne", !.index = @ + 1]
         /\ cache' = DestroyCache(cacheNow, sweep.batch[sweep.index + 1].id)
    ELSE /\ sweep' = [sweep EXCEPT !.pc = "done"]
         /\ cache' = cacheNow

\* The array has arrived: the loop starts.
SweepResume ==
    /\ sweep.pc = "found"
    /\ SweepNext(cache)
    /\ UNCHANGED <<now, ticks, collection, nextId, issued, calls, outcome,
                   destroyed, roleVars, requests, served, nextReq, touches,
                   routeCalls, routed, audit,
                   monitor>>

\* deleteOne is applied, destroy resolves, and auditLogger.log is called
\* with the session_expired entry (line 350); the loop suspends there.
SweepDestroyed ==
    /\ sweep.pc = "deleteOne"
    /\ LET session == sweep.batch[sweep.index]
       IN /\ collection' = DestroyCollection(collection, session.id)
          /\ destroyed' = destroyed \cup {session.id}
    /\ sweep' = [sweep EXCEPT !.pc = "auditLog"]
    /\ UNCHANGED <<now, ticks, cache, nextId, issued, calls, outcome,
                   roleVars, requests, served, nextReq, touches, routeCalls,
                   routed, audit,
                   monitor>>

\* deleteOne rejects: the error leaves destroy, the loop and cleanupSessions.
SweepDestroyFailed ==
    /\ sweep.pc = "deleteOne"
    /\ sweep' = [sweep EXCEPT !.pc = "failed", !.failedAt = sweep.index]
    /\ UNCHANGED <<now, ticks, sessionVars, roleVars, requests, served, nextReq,
                   touches, routeCalls, routed, audit,
                   monitor>>

\* The sink has written the entry and the log call has resolved: next
\* iteration.
SweepLogged ==
    /\ sweep.pc = "auditLog"
    /\ audit' = Log(audit, ExpiredEntry(sweep.batch[sweep.index]))
    /\ SweepNext(cache)
    /\ UNCHANGED <<now, ticks, collection, nextId, issued, calls, outcome,
                   destroyed, roleVars, requests, served, nextReq, touches,
                   routeCalls, routed,
                   monitor>>

\* The log call rejects: the error leaves the loop and cleanupSessions.
SweepLogFailed ==
    /\ sweep.pc = "auditLog"
    /\ sweep' = [sweep EXCEPT !.pc = "failed", !.failedAt = sweep.index]
    /\ UNCHANGED <<now, ticks, sessionVars, roleVars, requests, served, nextReq,
                   touches, routeCalls, routed, audit,
                   monitor>>

TickSweep ==
    /\ \E delta \in {SessionTtl, SessionTtl + 1} : Tick(delta)
    /\ outcome' = NoOutcome
    /\ UNCHANGED <<cache, collection, nextId, issued, calls, destroyed,
                   roleVars, pipelineVars>>

\* The store holds StoredSessions sessions, each created just before or at
\* start-up.
InitSweep ==
    /\ now = StartTime
    /\ ticks = 0
    /\ \E created \in [1..StoredSessions -> {StartTime - 1, StartTime}] :
          collection = [id \in 1..StoredSessions |->
                           UserSession(id, "u1", "viewer", {"read"},
                                       "1.1.1.1", "ua1", created[id])]
    /\ cache = collection
    /\ nextId = StoredSessions + 1
    /\ issued = 1..StoredSessions
    /\ calls = EmptyBag
    /\ outcome = NoOutcome
    /\ destroyed = {}
    /\ roles = EmptyMap
    /\ lastUpdated = 0
    /\ rolesDb = RolesAtStart
    /\ loaded = {}
    /\ roleCalls = EmptyBag
    /\ roleOutcome = NoRoleOutcome
    /\ PipelineIdle

NextSweep ==
    \/ TickSweep
    \/ SweepStart
    \/ SweepFind
    \/ SweepResume
    \/ SweepDestroyed
    \/ SweepDestroyFailed
    \/ SweepLogged
    \/ SweepLogFailed
    \/ \E id \in issued : ValidateCall(id)
    \/ \E call \in BagToSet(calls) : FindOneRead(call)
    \/ \E call \in BagToSet(calls) : ValidateResume(call)
    \/ \E call \in BagToSet(calls) : DestroyFinish(call)

SpecSweep == InitSweep /\ [][NextSweep]_vars

\* ------------------------------------------------------ claims C16-C17
\* C16: a sweep does not end before every candidate of its batch has been
\* taken up, whether or not destroying one of them failed.
C16_SweepIsolation ==
    sweep.pc \in {"done", "failed"} => sweep.index = Len(sweep.batch)

\* The session_expired entries written for the session id.
ExpiredEntries(id) ==
    {i \in DOMAIN audit :
        audit[i].type = "session_expired" /\ audit[i].sessionId = id}

\* C17: when a sweep has ended, every session that was in the repository
\* with expiresAt before the time of the query (and whose own removal did
\* not fail) is gone from cache and repository and has exactly one
\* session_expired entry carrying its userId; a session with expiresAt at
\* or after that time was not touched by the sweep and has no entry.
C17_SweepDestroysExpired ==
    sweep.pc \in {"done", "failed"}
        => \A k \in DOMAIN sweep.seen :
              LET session == sweep.seen[k]
                  failed == sweep.failedAt # 0
                            /\ sweep.batch[sweep.failedAt].id = k
              IN IF session.expiresAt < sweep.queriedAt
                 THEN failed \/ (/\ k \notin DOMAIN cache
                                 /\ k \notin DOMAIN collection
                                 /\ Cardinality(ExpiredEntries(k)) = 1
                                 /\ \A i \in ExpiredEntries(k) :
                                        audit[i].userId = session.userId)
                 ELSE /\ ExpiredEntries(k) = {}
                      /\ \A i \in 1..sweep.index : sweep.batch[i].id # k

C20_RepositoryFailureFailsClosed ==
    served.repoFailed => served.response = "500"

\* The deleteOne of the destroy that follows a failed security check has
\* been rejected, for a request that validate had accepted.
C20_Witness ==
    /\ served.repoFailed
    /\ served.session # {}
    /\ served.secure = {FALSE}
    /\ served.response = "500"

\* ===================================================== session lifetime
Minute == 60 * 1000
\* The lifetime the caller of create asks for in the scenario.
RequestedTtl == 60 * Minute

TickLifetime ==
    /\ \E delta \in {59 * Minute, 61 * Minute} : Tick(delta)
    /\ outcome' = NoOutcome
    /\ UNCHANGED <<cache, collection, nextId, issued, calls, destroyed,
                   roleVars, pipelineVars>>

NextLifetime ==
    \/ TickLifetime
    \/ \E user \in Users, request \in Requests : CreateCall(user, request)
    \/ \E call \in BagToSet(calls) : CreateInsertOk(call)
    \/ \E call \in BagToSet(calls) : CreateInsertFail(call)
    \/ \E id \in CallerIds : ValidateCall(id)
    \/ \E call \in BagToSet(calls) : FindOneRead(call)
    \/ \E call \in BagToSet(calls) : ValidateResume(call)
    \/ \E call \in BagToSet(calls) : DestroyFinish(call)

SpecLifetime == Init /\ [][NextLifetime]_vars

\* ------------------------------------------------------------ claim C19
\* C19: a session created with a lifetime of one hour validates 59 minutes
\* after its creation and is not found 61 minutes after it: no validate
\* called 61 minutes or more after the creation returns the session.
C19_LifetimeFollowsTtl ==
    outcome.op = "validate"
        => \A s \in outcome.result.session :
               /\ outcome.calledAt - s.createdAt < RequestedTtl + Minute

\* ------------------------------------------------------------ claim C21
\* C21: once withRoles has decided for a request, the request reaches the
\* handler whatever the audit sink does with the entry.
C21_AuditDoesNotGateDecision ==
    (routed.guard = "withRoles" /\ routed.decision = "allow")
        => routed.response = "next"

\* ============================================= secure session creation
\* Lines 146-155: createSecureSession calls sessionStore.create with a
\* fourth argument holding ip, userAgent and the generated deviceId; create
\* (line 37) takes three parameters and builds metadata from the request
\* itself (lines 46-50), so the argument is dropped.
CreateSecureSession(user, ctx) == CreateCall(user, ctx)

\* Sign-in through createSecureSession by the request OriginContext,
\* followed by requests through sessionMiddleware.  The steps behind line
\* 245 are not listed: no session stored by create passes line 233, so no
\* request of these behaviours gets there.
NextBind ==
    \/ TickRequests
    \/ \E user \in Users : CreateSecureSession(user, OriginContext)
    \/ \E call \in BagToSet(calls) : CreateInsertOk(call)
    \/ \E call \in BagToSet(calls) : CreateInsertFail(call)
    \/ \E cookie \in Cookies, ctx \in RequestContexts : Arrive(cookie, ctx)
    \/ \E req \in BagToSet(requests) : RequestFindOneRead(req)
    \/ \E req \in BagToSet(requests) : RequestValidateResume(req)
    \/ \E req \in BagToSet(requests) : RequestValidateDestroyed(req)
    \/ \E req \in BagToSet(requests) : RequestDeviceId(req)
    \/ \E req \in BagToSet(requests) : RequestDestroyed(req)
    \/ \E req \in BagToSet(requests) : RequestRepositoryFail(req)

SpecBind == Init /\ [][NextBind]_vars

\* ------------------------------------------------------------ claim C22
\* C22: a session stored by createSecureSession holds the ip, the user
\* agent and the derived deviceId of the request that created it, and
\* every security check of it against that same request context passes.
C22_BindCheckRoundTrip ==
    /\ \A id \in DOMAIN collection :
          /\ collection[id].metadata.ip = OriginContext.ip
          /\ collection[id].metadata.userAgent = OriginContext.userAgent
          /\ BoundDeviceId(collection[id]) = {GenerateDeviceId(OriginContext)}
    /\ (served.ctx = OriginContext /\ served.secure # {})
          => served.secure = {TRUE}

\* ------------------------------------------------------------ claim C23
\* C23: a validate of an id that names no session, in the cache or in the
\* collection, returns null and not an error, and when it has returned
\* neither the cache nor the collection has an entry for the id.
C23_AbsentIsOrdinary ==
    (outcome.op = "validate" /\ outcome.sid \notin issued)
        => /\ outcome.result.kind = "null"
           /\ outcome.sid \notin DOMAIN cache
           /\ outcome.sid \notin DOMAIN collection

\* A validate of an unknown id has gone through findOne and destroy and
\* returned.
C23_Witness ==
    /\ outcome.op = "validate"
    /\ outcome.sid = UnknownId
    /\ outcome.result.kind = "null"

\* ------------------------------------------------------------ claim C24
Day == 24 * 60 * Minute
StoredRecords ==
    {cache[id] : id \in DOMAIN cache} \cup
    {collection[id] : id \in DOMAIN collection}

\* C24: every session in the cache or in the collection expires after its
\* creation, and exactly 24 hours after it, no lifetime being asked for.
C24_ExpiresAfterCreation ==
    \A s \in StoredRecords :
        /\ s.expiresAt > s.createdAt
        /\ s.expiresAt = s.createdAt + Day

\* A create has returned and its session is in both stores.
C24_Witness ==
    /\ outcome.op = "create"
    /\ outcome.result.kind = "session"
    /\ outcome.sid \in DOMAIN cache \cap DOMAIN collection

\* =================================================== the request pipeline
\* sessionMiddleware in front of a route wrapped in withRoles: the next()
\* of line 247 runs the function withRoles returned, on the same request.

\* Lines 245-247 and 267-290: the awaited updateLastActive has settled,
\* next() is called and withRoles runs up to its first await.
PipelineNext(req, list) ==
    /\ req \in InFlight({"middleware"}, {"touch"})
    /\ LET response == AfterTouch(UpdateLastActiveResult(touches[req.id]))
       IN /\ Respond(req, response, cache, Without(req))
          /\ IF response = "next"
             THEN WithRolesEnter(req.id, req.session, list)
             ELSE /\ routeCalls' = routeCalls
                  /\ routed' = NoRouted
    /\ UNCHANGED <<now, ticks, collection, nextId, issued, calls, outcome,
                   destroyed, roleVars, nextReq, audit, sweep, monitor>>

NextPipeline ==
    \/ TickRequests
    \/ \E cookie \in Cookies, ctx \in RequestContexts : Arrive(cookie, ctx)
    \/ \E req \in BagToSet(requests) : RequestFindOneRead(req)
    \/ \E req \in BagToSet(requests) : RequestValidateResume(req)
    \/ \E req \in BagToSet(requests) : RequestValidateDestroyed(req)
    \/ \E req \in BagToSet(requests) : RequestDeviceId(req)
    \/ \E req \in BagToSet(requests) : RequestDestroyed(req)
    \/ \E req \in BagToSet(requests) : RequestRepositoryFail(req)
    \/ \E req \in BagToSet(requests), list \in RoleLists :
          PipelineNext(req, list)
    \/ \E id \in DOMAIN touches : TouchPersisted(id)
    \/ \E id \in DOMAIN touches : TouchPersistFailed(id)
    \/ \E call \in BagToSet(routeCalls) : WithRolesResume(call)
    \/ \E call \in BagToSet(routeCalls) : WithRolesLogFailed(call)

SpecPipeline == InitRequests /\ [][NextPipeline]_vars

\* ------------------------------------------------------------ claim C25
RouteIds(bag) == {c.id : c \in BagToSet(bag)}

\* Where each request in flight stands, and what a refusal leaves behind.
PipelineOrdered ==
    /\ \A r \in BagToSet(requests) :
          /\ (r.phase = "security" \/ r.pc \in {"destroy", "touch"})
                => r.session # {}
          /\ r.pc = "touch" => r.secure = {TRUE}
    /\ \A c \in BagToSet(routeCalls) :
          c.session # {} /\ c.id \notin {r.id : r \in BagToSet(requests)}
    /\ served.response \notin {"none", "next"}
          => /\ served.id \notin RouteIds(routeCalls)
             /\ routed.response # "none" => routed.id # served.id

\* The requests for which withRoles starts running in this step.
RouteBegins ==
    (RouteIds(routeCalls') \ RouteIds(routeCalls)) \cup
    {id \in {routed'.id} :
        /\ routed' # routed /\ routed'.response # "none"
        /\ id \notin RouteIds(routeCalls)}

\* withRoles starts only in the step in which the middleware, having
\* validated, checked and attached the session, calls next().
PipelineHandsOver ==
    \A id \in RouteBegins :
        /\ served'.id = id
        /\ served'.response = "next"
        /\ served'.valid
        /\ served'.secure = {TRUE}
        /\ served'.session # {}
        /\ \A c \in BagToSet(routeCalls') :
              c.id = id => c.session = served'.session
        /\ routed'.id = id => routed'.session = served'.session

\* C25: the security check starts only once validation has returned a
\* session, withRoles runs only once the check has passed and the session
\* is attached, and a request refused at one step runs no later step and
\* no handler.
C25_PipelineOrdered == []PipelineOrdered /\ [][PipelineHandsOver]_vars

\* A request has gone through validation, the security check and
\* withRoles to its handler.
C25_Witness ==
    /\ routed.guard = "withRoles"
    /\ routed.response = "next"
    /\ routed.session # {}
    /\ nextReq > 1

\* ------------------------------------------------------------ claim C26
\* C26: a getRole that finds the cache older than the refresh interval and
\* reaches the repository answers with what the repository held for the
\* role at some moment of the call, never with an older form of it.
C26_StalenessBounded ==
    (roleOutcome.op = "getRole" /\ roleOutcome.since # {}
        /\ ~roleOutcome.reloadFailed)
        => \E table \in roleOutcome.since :
               roleOutcome.result =
                   RoleReturned({r \in table : r.id = roleOutcome.roleId})

\* ====================================================== SessionMonitor
\* The activity records getRecentActivity can return for the user of a
\* session created at StartTime: up to MaxActivity records, from either
\* address, before, at and after the creation.
MaxActivity == 2
Activities ==
    {records \in SUBSET [ip : {"1.1.1.1", "2.2.2.2"},
                         timestamp : {StartTime - 1, StartTime, StartTime + 1}] :
        Cardinality(records) <= MaxActivity}

\* A filter that leaves the timestamps out.
ConcurrentSessionsAnyTime(activity, session) ==
    {a \in activity : a.ip # session.metadata.ip}
\* Lines 316-320: the activity after the session's creation from an
\* address other than the session's.
ConcurrentSessions(activity, session) ==
    {a \in activity : /\ a.timestamp > session.createdAt
                      /\ a.ip # session.metadata.ip}

\* Lines 323-327 and 333-337: the alerts handed to handleSecurityAlert.
ConcurrentAlert(session, concurrent) ==
    [type |-> "concurrent_sessions", userId |-> session.userId,
     sessions |-> concurrent]
LocationAlert(session) ==
    [type |-> "suspicious_location_changes", userId |-> session.userId]

\* Lines 331-338: analyzeLocationChanges has answered; a suspicious answer
\* calls handleSecurityAlert and suspends at line 333, any other ends the
\* run.
Analyze(run, suspicious) ==
    LET session == CHOOSE s \in run.session : TRUE
    IN IF suspicious
       THEN [run EXCEPT !.pc = "locationAlert", !.suspicious = {TRUE},
                        !.alerts = Append(@, LocationAlert(session))]
       ELSE [run EXCEPT !.pc = "done", !.suspicious = {FALSE}]

\* Line 313: detectAnomalies is called for a stored session and suspends at
\* getRecentActivity.
DetectAnomalies(session) ==
    /\ monitor.pc = "idle"
    /\ monitor' = [MonitorIdle EXCEPT !.pc = "getRecentActivity",
                                      !.session = {session}]
    /\ UNCHANGED <<now, ticks, sessionVars, roleVars, requests, served, nextReq,
                   touches, routeCalls, routed, audit, sweep>>

\* Lines 313-333: the activity has arrived; with concurrent sessions
\* handleSecurityAlert is called and the run suspends at line 323,
\* without them the location policy is asked at once.
MonitorActivity(activity, suspicious) ==
    /\ monitor.pc = "getRecentActivity"
    /\ LET session == CHOOSE s \in monitor.session : TRUE
           concurrent == ConcurrentSessions(activity, session)
           run == [monitor EXCEPT !.activity = activity]
       IN monitor' =
              IF concurrent # {}
              THEN [run EXCEPT !.pc = "concurrentAlert",
                               !.alerts = Append(@, ConcurrentAlert(session,
                                                                    concurrent))]
              ELSE Analyze(run, suspicious)
    /\ UNCHANGED <<now, ticks, sessionVars, roleVars, requests, served, nextReq,
                   touches, routeCalls, routed, audit, sweep>>

\* The awaited handleSecurityAlert has resolved: after the first alert the
\* location policy is asked (line 331), after the second the run ends.
MonitorAlerted(suspicious) ==
    /\ monitor.pc \in {"concurrentAlert", "locationAlert"}
    /\ monitor' = IF monitor.pc = "concurrentAlert"
                  THEN Analyze(monitor, suspicious)
                  ELSE [monitor EXCEPT !.pc = "done"]
    /\ UNCHANGED <<now, ticks, sessionVars, roleVars, requests, served, nextReq,
                   touches, routeCalls, routed, audit, sweep>>

\* getRecentActivity or handleSecurityAlert rejects: nothing catches the
\* error and detectAnomalies rejects.
MonitorFailed ==
    /\ monitor.pc \in {"getRecentActivity", "concurrentAlert", "locationAlert"}
    /\ monitor' = [monitor EXCEPT !.pc = "failed"]
    /\ UNCHANGED <<now, ticks, sessionVars, roleVars, requests, served, nextReq,
                   touches, routeCalls, routed, audit, sweep>>

\* The monitor runs beside callers that destroy the session.
NextMonitor ==
    \/ \E id \in DOMAIN collection : DetectAnomalies(collection[id])
    \/ \E activity \in Activities, suspicious \in BOOLEAN :
          MonitorActivity(activity, suspicious)
    \/ \E suspicious \in BOOLEAN : MonitorAlerted(suspicious)
    \/ MonitorFailed
    \/ \E id \in issued : DestroyCall(id)
    \/ \E call \in BagToSet(calls) : DestroyFinish(call)

SpecMonitor == InitRequests /\ [][NextMonitor]_vars

\* ------------------------------------------------------------ claim C27
AlertTypes == {monitor.alerts[i].type : i \in DOMAIN monitor.alerts}

\* The alerts of a run are those its findings call for.
MonitorAlerts ==
    LET differing ==
            \E s \in monitor.session, a \in monitor.activity :
                a.timestamp > s.createdAt /\ a.ip # s.metadata.ip
    IN /\ "concurrent_sessions" \in AlertTypes => differing
       /\ "suspicious_location_changes" \in AlertTypes
             => monitor.suspicious = {TRUE}
       /\ monitor.pc = "done"
             => /\ differing => "concurrent_sessions" \in AlertTypes
                /\ monitor.suspicious = {TRUE}
                      => "suspicious_location_changes" \in AlertTypes

\* A step of the monitor leaves both stores as they are.
MonitorFrame ==
    monitor' # monitor => cache' = cache /\ collection' = collection

\* C27: a run of detectAnomalies raises concurrent_sessions exactly when
\* the user has activity after the session's creation from another
\* address and suspicious_location_changes exactly when the location
\* policy says so, and no step of it changes the cache or the collection.
C27_MonitorAlertsOnly == []MonitorAlerts /\ [][MonitorFrame]_vars

\* A run has raised both alerts and ended, the session still stored.
C27_Witness ==
    /\ monitor.pc = "done"
    /\ AlertTypes = {"concurrent_sessions", "suspicious_location_changes"}
    /\ \A s \in monitor.session : s.id \in DOMAIN collection

\* ================================== requests beside direct validate calls
\* sessionMiddleware serving a request while other callers of
\* sessionStore.validate ask for the same session.
NextShared ==
    \/ TickRequests
    \/ \E cookie \in Cookies, ctx \in RequestContexts : Arrive(cookie, ctx)
    \/ \E req \in BagToSet(requests) : RequestFindOneRead(req)
    \/ \E req \in BagToSet(requests) : RequestValidateResume(req)
    \/ \E req \in BagToSet(requests) : RequestValidateDestroyed(req)
    \/ \E req \in BagToSet(requests) : RequestDeviceId(req)
    \/ \E req \in BagToSet(requests) : RequestDestroyed(req)
    \/ \E req \in BagToSet(requests) : RequestRepositoryFail(req)
    \/ \E req \in BagToSet(requests) : RequestTouched(req)
    \/ \E id \in DOMAIN touches : TouchPersisted(id)
    \/ \E id \in DOMAIN touches : TouchPersistFailed(id)
    \/ \E id \in issued : ValidateCall(id)
    \/ \E call \in BagToSet(calls) : FindOneRead(call)
    \/ \E call \in BagToSet(calls) : ValidateResume(call)
    \/ \E call \in BagToSet(calls) : DestroyFinish(call)

SpecShared == InitRequests /\ [][NextShared]_vars

\* ------------------------------------------------------------ claim C28
\* The session without its lastActive.
Frozen(session) == [session EXCEPT !.metadata.lastActive = 0]

\* An entry that stays in a store keeps every field but lastActive, and
\* changes at all only in a step of updateLastActive: in the cache when
\* the write is issued, in the collection when the write is applied.
OnlyTouchChanges ==
    /\ \A id \in DOMAIN cache \cap DOMAIN cache' :
          /\ Frozen(cache'[id]) = Frozen(cache[id])
          /\ cache'[id] # cache[id] => DOMAIN touches' # DOMAIN touches
    /\ \A id \in DOMAIN collection \cap DOMAIN collection' :
          /\ Frozen(collection'[id]) = Frozen(collection[id])
          /\ collection'[id] # collection[id]
                => \E k \in DOMAIN touches :
                       /\ touches[k].state = "pending"
                       /\ touches'[k].state = "stored"

C29_TokenAdmits ==
    (/\ served.response # "none"
     /\ served.cookie = TokenCookie(1)
     /\ served.ctx = OriginContext
     /\ served.live
     /\ ~served.repoFailed
     /\ \E s \in MapGet(collection, 1) :
           /\ s.expiresAt > now
           /\ s.token = <<"token", 1>>
           /\ s.metadata.ip = OriginContext.ip
           /\ s.metadata.userAgent = OriginContext.userAgent
           /\ BoundDeviceId(s) = {GenerateDeviceId(OriginContext)})
        => served.response = "next"

\* ------------------------------------------------------------ claim C30
\* C30: whenever no create, validate or destroy is in flight, every session
\* the cache holds is in the collection under the same id with the same
\* record.
C30_CacheIsOverlay ==
    calls = EmptyBag
        => \A id \in DOMAIN cache :
               /\ id \in DOMAIN collection
               /\ collection[id] = cache[id]

====
